---- MODULE Spec2Model ----
(***************************************************************************)
(* AstroVaultFundraise: a confidential fundraising ledger.  One campaign   *)
(* is active at a time; contributions are pulled from the contributor's    *)
(* confidential cUSDT balance into the contract's own balance (the pool),  *)
(* folded into the campaign's encrypted total and the contributor's        *)
(* encrypted record, and swept to the owner on finalize.                   *)
(*                                                                         *)
(* An encrypted value is a handle: an index into the arena `cipher` of     *)
(* plaintexts, 0 being the uninitialized handle.  Every homomorphic        *)
(* operation appends a new entry; an entry is never rewritten.  `acl` is   *)
(* the set of (handle, principal) decryption grants.                       *)
(*                                                                         *)
(* The campaign contract is translated from its Solidity source.  The      *)
(* cUSDT token (ConfidentialUSDT.sol) and the FHE library are not among    *)
(* the sources; their operations are modelled from the specification.      *)
(***************************************************************************)
EXTENDS Integers, Sequences, FiniteSets, TLC

\* ---------------------------------------------------------------- bounds
\* euint64 is scaled down to WordBits bits so that the limits of the word (a
\* transfer clamped to the balance, an addition that wraps) are reachable.
WordBits == 3
Modulus == 2 ^ WordBits
\* block.timestamp ranges over 1..MaxTime
MaxTime == 2
\* at most MaxCampaigns campaigns are created in one behaviour
MaxCampaigns == 2
\* at most MaxContributions successful contribute calls in one behaviour
MaxContributions == 2
\* at most MaxMints mint calls in one behaviour
MaxMints == 2
\* at most MaxCalls successful createCampaign, contribute, finalizeCampaign and
\* mint calls in one behaviour
MaxCalls == 6
\* number of steps of an execution that is run a second time with other amounts
ScriptLen == 4

\* ------------------------------------------------------------ principals
This == "this"
NoAddr == "0x0"
Addr == {"o", "a", "b"}
Principal == Addr \cup {This}

Deadlines == 1 .. (MaxTime + 1)
\* createCampaign arguments: every deadline with a valid name and a target of
\* its own, and one call for each way the name or the target can be invalid
CreateArgs ==
    {<<"vault", d, d>> : d \in Deadlines}
        \cup {<<"", 1, MaxTime + 1>>, <<"vault", 0, MaxTime + 1>>}
\* the accounts that open campaigns (o the first one, b every later one), and
\* the accounts that cUSDT is minted to
Creators == {"o", "b"}
MintTo == {"a", "b", This}
ContribAmounts == {3, 4}
MintAmounts == {3, 4}
\* expiry of the operator right a contributor has given the contract in the
\* token's allowance table at the time of a call: 0 when none was ever given
OperatorUntil == 0 .. MaxTime
\* the contribute calls (caller, amount) and mint calls (recipient, amount)
\* made: one account moves the larger amount, the others the smaller
ContribCalls == {x \in Addr \X ContribAmounts : x[2] = 4 <=> x[1] = "a"}
MintCalls == {x \in MintTo \X MintAmounts : x[2] = 4 <=> x[1] = "a"}
\* what contribute hands to the token besides the amount: the verdict on the
\* proof and the expiry of the caller's operator right; an invalid proof is
\* tried without any right and with a lasting one
PullInputs ==
    {<<TRUE, u>> : u \in OperatorUntil} \cup {<<FALSE, 0>>, <<FALSE, MaxTime>>}

VARIABLES
    now,                \* block.timestamp
    campaignCounter,    \* _campaignCounter
    activeCampaignId,   \* _activeCampaignId
    campaigns,          \* _campaigns
    contributions,      \* _contributions
    balances,           \* cUSDT balance handle of every principal
    cipher,             \* plaintext behind every handle produced so far
    acl,                \* decryption grants: <<handle, principal>>
    minted,             \* cUSDT: the accounts minted to so far, oldest first
    events,             \* emitted events, oldest first
    last,               \* outcome of the latest call
    script,             \* the calls of a first execution and what each showed
    pos                 \* 0 in a first execution; in its rerun, the next call

vars == <<now, campaignCounter, activeCampaignId, campaigns, contributions,
          balances, cipher, acl, minted, events, last>>

\* keys of the campaign mappings that the model looks at: 0 and one id past
\* the last one that can be allocated are never written
CampaignIds == 0 .. (MaxCampaigns + 1)

\* mapping default of _campaigns: every field zero
EmptyCampaign ==
    [owner |-> NoAddr, name |-> "", deadline |-> 0, targetAmount |-> 0,
     totalRaised |-> 0, finalized |-> FALSE]

\* ------------------------------------------------- homomorphic primitives
\* FHE.isInitialized
IsInitialized(h) == h # 0

\* plaintext behind a handle in arena c; an uninitialized operand counts as 0
Plain(c, h) == IF IsInitialized(h) THEN c[h] ELSE 0

\* the handle that the next operation on arena c produces
NextHandle(c) == Len(c) + 1

\* FHE.asEuint64(plain): a new ciphertext of plain
AsEuint64(c, plain) == Append(c, plain % Modulus)

\* FHE.add(a, b): a new ciphertext of (plain(a) + plain(b)) mod 2^width
FheAdd(c, a, b) == Append(c, (Plain(c, a) + Plain(c, b)) % Modulus)

\* mutant: granting a handle to one principal drops the others' grants on it
AllowExclusive(g, h, p) == {x \in g : x[1] # h} \cup {<<h, p>>}

\* FHE.allow / FHE.allowThis: grants only accumulate
Allow(g, h, p) == g \cup {<<h, p>>}

\* ------------------------------------------------------- cUSDT (the token)
\* amount actually moved by a transfer of `amount` out of a balance `bal`:
\* the whole amount when the balance covers it, otherwise nothing
Effective(amount, bal) == IF amount <= bal THEN amount ELSE 0

\* confidentialTransfer(from, to, amount handle a), from # to: one atomic unit
\* producing the transferred handle and both new balance handles
TokenTransfer(c, bal, g, from, to, a) ==
    LET fromPlain == Plain(c, bal[from])
        toPlain == Plain(c, bal[to])
        eff == Effective(Plain(c, a), fromPlain)
        tr == NextHandle(c)
        nf == tr + 1
        nt == tr + 2
    IN  [cipher |-> c \o <<eff, fromPlain - eff, (toPlain + eff) % Modulus>>,
         balances |-> [bal EXCEPT ![from] = nf, ![to] = nt],
         acl |-> g \cup {<<tr, from>>, <<tr, to>>, <<nf, from>>, <<nt, to>>},
         transferred |-> tr]

\* isOperator(holder, this contract): the right has not expired
IsOperator(until) == now <= until

\* errors of confidentialTransferFrom(holder, this, external amount, proof).
\* proofOk is the encryption runtime's verdict on the proof; authorized is the
\* token's answer to isOperator(holder, this contract) at the current time.
TransferFromErrors(proofOk, authorized) ==
    (IF proofOk THEN {} ELSE {"ProofInvalid"})
    \cup (IF authorized THEN {} ELSE {"NotAuthorizedOperator"})

\* ----------------------------------------------------- outcome of a call
Outcome(op, sender, err, ret, id) ==
    [op |-> op, caller |-> sender, err |-> err, ret |-> ret, id |-> id,
     input |-> <<>>]

\* reported while the latest step was no call of the campaign contract
NoCall == Outcome("none", NoAddr, "ok", 0, 0)

\* mutant: a rejected createCampaign has consumed an id all the same
RevertCounterConsumed(op, err) ==
    /\ last' = Outcome(op, NoAddr, err, 0, 0)
    /\ campaignCounter' =
           IF op = "createCampaign" THEN campaignCounter + 1 ELSE campaignCounter
    /\ UNCHANGED <<now, activeCampaignId, campaigns,
                   contributions, balances, cipher, acl, minted, events>>

\* a revert: nothing but the reported outcome changes, and the outcome is the
\* function and its error
Revert(op, err) ==
    /\ last' = Outcome(op, NoAddr, err, 0, 0)
    /\ UNCHANGED <<now, campaignCounter, activeCampaignId, campaigns,
                   contributions, balances, cipher, acl, minted, events>>

\* a revert of a call that takes a proof: as after a successful contribute,
\* the outcome also tells what proof and operator right the call came with
RevertWith(op, err, input) ==
    /\ last' = [Outcome(op, NoAddr, err, 0, 0) EXCEPT !.input = input]
    /\ UNCHANGED <<now, campaignCounter, activeCampaignId, campaigns,
                   contributions, balances, cipher, acl, minted, events>>

\* successful state-changing calls so far: every one emits an event or is a mint
Calls == Len(events) + Len(minted)

\* ------------------------------------------------------------- views
\* activeCampaignId()
ActiveCampaignIdView == activeCampaignId

\* mutant: a finalized campaign is reported as not found
GetCampaignErrorHidesFinalized(campaignId) ==
    IF campaigns[campaignId].owner = NoAddr \/ campaigns[campaignId].finalized
    THEN "CampaignNotFound" ELSE "ok"

\* getCampaign(campaignId): the stored record, or CampaignNotFound
GetCampaignError(campaignId) ==
    IF campaigns[campaignId].owner = NoAddr THEN "CampaignNotFound" ELSE "ok"

\* the fields getCampaign(campaignId) returns when it does not revert
GetCampaign(campaignId) ==
    [owner |-> campaigns[campaignId].owner,
     name |-> campaigns[campaignId].name,
     deadline |-> campaigns[campaignId].deadline,
     targetAmount |-> campaigns[campaignId].targetAmount,
     totalRaised |-> campaigns[campaignId].totalRaised,
     finalized |-> campaigns[campaignId].finalized]

\* getContribution(campaignId, contributor): a plain mapping read
GetContribution(campaignId, contributor) == contributions[campaignId][contributor]

\* getContribution has no revert: whatever the id, it returns the mapping entry
GetContributionError(campaignId, contributor) == "ok"

\* -------------------------------------------------------- createCampaign
\* mutant: the check for an already active campaign is missing
CreateErrorNoActiveCheck(name, targetAmount, deadline) ==
    IF Len(name) = 0 \/ targetAmount = 0 \/ deadline <= now
    THEN "InvalidCampaignConfig"
    ELSE "ok"

\* mutant: a deadline equal to the current time is accepted
CreateErrorDeadlineNow(name, targetAmount, deadline) ==
    IF activeCampaignId # 0 THEN "ActiveCampaignAlreadyExists"
    ELSE IF Len(name) = 0 \/ targetAmount = 0 \/ deadline < now
         THEN "InvalidCampaignConfig"
    ELSE "ok"

\* mutant: a campaign past its deadline no longer blocks a new one
CreateErrorReplacesExpired(name, targetAmount, deadline) ==
    IF activeCampaignId # 0 /\ now < campaigns[activeCampaignId].deadline
    THEN "ActiveCampaignAlreadyExists"
    ELSE IF Len(name) = 0 \/ targetAmount = 0 \/ deadline <= now
         THEN "InvalidCampaignConfig"
    ELSE "ok"

CreateError(name, targetAmount, deadline) ==
    IF activeCampaignId # 0 THEN "ActiveCampaignAlreadyExists"
    ELSE IF Len(name) = 0 \/ targetAmount = 0 \/ deadline <= now
         THEN "InvalidCampaignConfig"
    ELSE "ok"

\* mutant: the id is derived from the (cleared) active slot, so ids are reused
NewCampaignIdReuse == activeCampaignId + 1

\* the id a successful createCampaign allocates
NewCampaignId == campaignCounter + 1

\* mutant: the two constants are encrypted in the other order, so the target
\* field gets the zero and the total starts at the target
CreateCipherSwapped(c, targetAmount) == AsEuint64(AsEuint64(c, 0), targetAmount)

\* FHE.asEuint64(targetAmount) followed by FHE.asEuint64(0)
CreateCipher(c, targetAmount) == AsEuint64(AsEuint64(c, targetAmount), 0)

CreateCampaign(sender, name, targetAmount, deadline) ==
    LET err == CreateError(name, targetAmount, deadline)
        id == NewCampaignId
        target == NextHandle(cipher)
        total == target + 1
        c2 == CreateCipher(cipher, targetAmount)
    IN  IF err # "ok" THEN Revert("createCampaign", err)
        ELSE /\ campaignCounter < MaxCampaigns
             /\ Calls < MaxCalls
             /\ campaignCounter' = id
             /\ cipher' = c2
             /\ acl' = Allow(Allow(Allow(Allow(acl, target, This), target, sender),
                                   total, This), total, sender)
             /\ campaigns' = [campaigns EXCEPT ![id] =
                    [owner |-> sender, name |-> name, deadline |-> deadline,
                     targetAmount |-> target, totalRaised |-> total,
                     finalized |-> FALSE]]
             /\ activeCampaignId' = id
             /\ events' = Append(events,
                    [kind |-> "CampaignCreated", id |-> id, who |-> sender,
                     amount |-> targetAmount])
             /\ last' = Outcome("createCampaign", sender, "ok", 0, id)
             /\ UNCHANGED <<now, contributions, balances, minted>>

\* ------------------------------------------------------------ contribute
\* mutant: a campaign whose total has reached its target accepts no more
ContributeErrorTargetReached(campaignId) ==
    IF campaignId = 0 THEN "CampaignNotFound"
    ELSE IF campaigns[campaignId].finalized \/ now >= campaigns[campaignId].deadline
            \/ Plain(cipher, campaigns[campaignId].totalRaised)
                  >= Plain(cipher, campaigns[campaignId].targetAmount)
         THEN "CampaignClosed"
    ELSE "ok"

\* mutant: the deadline itself still accepts contributions
ContributeErrorLateClose(campaignId) ==
    IF campaignId = 0 THEN "CampaignNotFound"
    ELSE IF campaigns[campaignId].finalized \/ now > campaigns[campaignId].deadline
         THEN "CampaignClosed"
    ELSE "ok"

\* the lifecycle checks made before any funds move
ContributeError(campaignId) ==
    IF campaignId = 0 THEN "CampaignNotFound"
    ELSE IF campaigns[campaignId].finalized \/ now >= campaigns[campaignId].deadline
         THEN "CampaignClosed"
    ELSE "ok"

\* _initialized(value): the value itself, or a new encrypted zero
InitializedCipher(c, value) == IF IsInitialized(value) THEN c ELSE AsEuint64(c, 0)
InitializedHandle(c, value) == IF IsInitialized(value) THEN value ELSE NextHandle(c)

\* mutant: the total is replaced by the latest amount instead of folded
UpdatedTotalCipherOverwrite(c, totalRaised, transferred) ==
    FheAdd(c, 0, transferred)

\* mutant: the requested amount (the handle ingested just before the transfer)
\* is folded instead of the amount the transfer returned
UpdatedTotalCipherRequested(c, totalRaised, transferred) ==
    FheAdd(InitializedCipher(c, totalRaised),
           InitializedHandle(c, totalRaised), transferred - 1)

\* FHE.add(_initialized(campaign.totalRaised), transferred)
UpdatedTotalCipher(c, totalRaised, transferred) ==
    FheAdd(InitializedCipher(c, totalRaised),
           InitializedHandle(c, totalRaised), transferred)

\* mutant: the record is replaced by the latest amount instead of folded
UpdatedContributionCipherOverwrite(c, previous, transferred) ==
    FheAdd(c, 0, transferred)

\* mutant: the requested amount is folded into the record
UpdatedContributionCipherRequested(c, previous, transferred) ==
    FheAdd(InitializedCipher(c, previous),
           InitializedHandle(c, previous), transferred - 1)

\* FHE.add(_initialized(_contributions[campaignId][msg.sender]), transferred)
UpdatedContributionCipher(c, previous, transferred) ==
    FheAdd(InitializedCipher(c, previous),
           InitializedHandle(c, previous), transferred)

\* mutant: the new total is granted to the contract and the owner only
ContributeGrantsNoContributor(g, updatedTotal, updatedContribution, transferred, owner, sender) ==
    g \cup {<<updatedTotal, This>>, <<updatedTotal, owner>>,
            <<updatedContribution, This>>, <<updatedContribution, sender>>,
            <<updatedContribution, owner>>,
            <<transferred, owner>>, <<transferred, sender>>}

\* mutant: the new total handle inherits the grants of the handle it replaces
ContributeGrantsInherited(g, updatedTotal, updatedContribution, transferred, owner, sender) ==
    g \cup {<<updatedTotal, This>>, <<updatedTotal, owner>>, <<updatedTotal, sender>>,
            <<updatedContribution, This>>, <<updatedContribution, sender>>,
            <<updatedContribution, owner>>,
            <<transferred, owner>>, <<transferred, sender>>}
      \cup {<<updatedTotal, x[2]>> :
               x \in {y \in g : y[1] = campaigns[activeCampaignId].totalRaised}}

\* grants issued by contribute on the three handles it produced
ContributeGrants(g, updatedTotal, updatedContribution, transferred, owner, sender) ==
    g \cup {<<updatedTotal, This>>, <<updatedTotal, owner>>, <<updatedTotal, sender>>,
            <<updatedContribution, This>>, <<updatedContribution, sender>>,
            <<updatedContribution, owner>>,
            <<transferred, owner>>, <<transferred, sender>>}

\* mutant: the funds are moved by a call that asks for no operator right
PullErrorsUnchecked(proofOk, authorized) == TransferFromErrors(proofOk, TRUE)

\* the ways cusdt.confidentialTransferFrom(msg.sender, address(this), ...) can
\* revert inside contribute
PullErrors(proofOk, authorized) == TransferFromErrors(proofOk, authorized)

\* mutant: the funds are pulled, and the proof and the operator right looked
\* at, before the lifecycle checks
ContributeErrorsPullFirst(lifecycle, pull) ==
    IF pull # {} THEN pull
    ELSE IF lifecycle # "ok" THEN {lifecycle}
    ELSE {}

\* the errors a contribute call can end with: the lifecycle checks come first,
\* and the token is called, with whatever it refuses, only when they pass
ContributeErrors(lifecycle, pull) ==
    IF lifecycle # "ok" THEN {lifecycle} ELSE pull

\* mutant: the record is written under the campaign owner's key
RecordSlotOwner(campaignId, sender) == <<campaignId, campaigns[campaignId].owner>>

\* the entry of _contributions that contribute writes
RecordSlot(campaignId, sender) == <<campaignId, sender>>

\* number of ContributionReceived events emitted so far
ContributionCount ==
    Cardinality({i \in 1 .. Len(events) : events[i].kind = "ContributionReceived"})

\* mutant: contribute addresses the campaign allocated last
ContributeTargetLatest == campaignCounter

\* the campaign a contribute call addresses: the one active as it executes
ContributeTarget == activeCampaignId

Contribute(sender, amount, proofOk, operatorUntil) ==
    LET campaignId == ContributeTarget
        authorized == IsOperator(operatorUntil)
        err == ContributeError(campaignId)
        campaign == campaigns[campaignId]
        \* cusdt.confidentialTransferFrom(msg.sender, this, encryptedAmount, proof)
        ingested == AsEuint64(cipher, amount)
        t == TokenTransfer(ingested, balances, acl, sender, This, Len(ingested))
        transferred == t.transferred
        c1 == UpdatedTotalCipher(t.cipher, campaign.totalRaised, transferred)
        updatedTotal == Len(c1)
        previous == contributions[campaignId][sender]
        c2 == UpdatedContributionCipher(c1, previous, transferred)
        updatedContribution == Len(c2)
        errs == ContributeErrors(err, PullErrors(proofOk, authorized))
    IN  IF errs # {}
        THEN \E e \in errs :
                RevertWith("contribute", e, <<proofOk, operatorUntil>>)
        ELSE /\ ContributionCount < MaxContributions
             /\ Calls < MaxCalls
             /\ cipher' = c2
             /\ balances' = t.balances
             /\ campaigns' = [campaigns EXCEPT ![campaignId].totalRaised = updatedTotal]
             /\ contributions' =
                    [contributions EXCEPT
                        ![RecordSlot(campaignId, sender)[1]]
                         [RecordSlot(campaignId, sender)[2]] = updatedContribution]
             /\ acl' = ContributeGrants(t.acl, updatedTotal, updatedContribution,
                                        transferred, campaign.owner, sender)
             /\ events' = Append(events,
                    [kind |-> "ContributionReceived", id |-> campaignId,
                     who |-> sender, amount |-> transferred])
             /\ last' = [Outcome("contribute", sender, "ok", updatedContribution,
                                 campaignId)
                            EXCEPT !.input = <<proofOk, operatorUntil>>]
             /\ UNCHANGED <<now, campaignCounter, activeCampaignId, minted>>

\* ------------------------------------------------------ finalizeCampaign
\* mutant: anyone may finalize
FinalizeErrorAnyone(sender) ==
    IF activeCampaignId = 0 THEN "CampaignNotFound"
    ELSE IF campaigns[activeCampaignId].finalized THEN "CampaignClosed"
    ELSE "ok"

\* mutant: finalize is refused until the deadline has passed
FinalizeErrorAfterDeadline(sender) ==
    IF activeCampaignId = 0 THEN "CampaignNotFound"
    ELSE IF campaigns[activeCampaignId].owner # sender THEN "UnauthorizedOwner"
    ELSE IF campaigns[activeCampaignId].finalized
            \/ now < campaigns[activeCampaignId].deadline THEN "CampaignClosed"
    ELSE "ok"

\* mutant: the owner is compared before the active id is looked at
FinalizeErrorOwnerFirst(sender) ==
    IF campaigns[activeCampaignId].owner # sender THEN "UnauthorizedOwner"
    ELSE IF activeCampaignId = 0 THEN "CampaignNotFound"
    ELSE IF campaigns[activeCampaignId].finalized THEN "CampaignClosed"
    ELSE "ok"

FinalizeError(sender) ==
    IF activeCampaignId = 0 THEN "CampaignNotFound"
    ELSE IF campaigns[activeCampaignId].owner # sender THEN "UnauthorizedOwner"
    ELSE IF campaigns[activeCampaignId].finalized THEN "CampaignClosed"
    ELSE "ok"

\* mutant: finalize pays out the campaign's target
PayoutRequestTarget(campaignId) == campaigns[campaignId].targetAmount

\* mutant: finalize pays out the running total instead of the whole balance
PayoutRequestTotal(campaignId) == campaigns[campaignId].totalRaised

\* the amount finalize asks the token to move: cusdt.confidentialBalanceOf(this)
PayoutRequest(campaignId) == balances[This]

\* mutant: finalize forgets to clear the active campaign
ActiveAfterFinalizeKept(campaignId) == campaignId

\* _activeCampaignId after a successful finalize
ActiveAfterFinalize(campaignId) == 0

FinalizeCampaign(sender) ==
    LET campaignId == activeCampaignId
        err == FinalizeError(sender)
        campaign == campaigns[campaignId]
        balance == PayoutRequest(campaignId)
        g1 == Allow(Allow(acl, balance, This), balance, campaign.owner)
        \* cusdt.confidentialTransfer(campaign.owner, balance)
        t == TokenTransfer(cipher, balances, g1, This, campaign.owner, balance)
        payout == t.transferred
    IN  IF err # "ok" THEN Revert("finalizeCampaign", err)
        ELSE /\ Calls < MaxCalls
             /\ cipher' = t.cipher
             /\ balances' = t.balances
             /\ acl' = Allow(Allow(t.acl, payout, This), payout, campaign.owner)
             /\ campaigns' = [campaigns EXCEPT ![campaignId].finalized = TRUE]
             /\ activeCampaignId' = ActiveAfterFinalize(campaignId)
             /\ events' = Append(events,
                    [kind |-> "CampaignFinalized", id |-> campaignId,
                     who |-> sender, amount |-> payout])
             /\ last' = Outcome("finalizeCampaign", sender, "ok", payout, campaignId)
             /\ UNCHANGED <<now, campaignCounter, contributions, minted>>

\* ------------------------------------------------- the token's own calls
\* cusdt.mint(to, amount): credits `to` with a new balance handle holding the
\* old balance plus the plain amount, added as every encrypted word is added
Mint(to, amount) ==
    LET c1 == AsEuint64(cipher, amount)
        c2 == FheAdd(c1, balances[to], Len(c1))
    IN  /\ Len(minted) < MaxMints
        /\ Calls < MaxCalls
        /\ minted' = Append(minted, to)
        /\ cipher' = c2
        /\ balances' = [balances EXCEPT ![to] = Len(c2)]
        /\ acl' = Allow(acl, Len(c2), to)
        /\ last' = NoCall
        /\ UNCHANGED <<now, campaignCounter, activeCampaignId, campaigns,
                       contributions, events>>

\* the chain's clock advances between calls
Tick ==
    /\ now < MaxTime
    /\ now' = now + 1
    /\ last' = NoCall
    /\ UNCHANGED <<campaignCounter, activeCampaignId, campaigns, contributions,
                   balances, cipher, acl, minted, events>>

\* ------------------------------------------------------- the state machine
Init ==
    /\ now = 1
    /\ campaignCounter = 0
    /\ activeCampaignId = 0
    /\ campaigns = [i \in CampaignIds |-> EmptyCampaign]
    /\ contributions = [i \in CampaignIds |-> [p \in Addr |-> 0]]
    /\ balances = [p \in Principal |-> 0]
    /\ cipher = <<>>
    /\ acl = {}
    /\ minted = <<>>
    /\ events = <<>>
    /\ last = NoCall
    /\ script = <<>>
    /\ pos = 0

Next ==
    \/ /\ \E s \in Addr, x \in CreateArgs :
             /\ \/ s \in Creators /\ (s = "o" <=> campaignCounter = 0)
                \/ CreateError(x[1], x[2], x[3]) # "ok"
             /\ CreateCampaign(s, x[1], x[2], x[3])
       /\ UNCHANGED <<script, pos>>
    \/ /\ \E x \in ContribCalls, y \in PullInputs :
             Contribute(x[1], x[2], y[1], y[2])
       /\ UNCHANGED <<script, pos>>
    \/ /\ \E s \in Addr : FinalizeCampaign(s)
       /\ UNCHANGED <<script, pos>>
    \/ /\ \E x \in MintCalls : Mint(x[1], x[2])
       /\ UNCHANGED <<script, pos>>
    \/ /\ Tick
       /\ UNCHANGED <<script, pos>>

Spec == Init /\ [][Next]_vars

\* ------------------------------------------- one execution, run twice over
\* What an observer without any decryption right sees after a call: the
\* function called, its success or error kind, activeCampaignId(), and the
\* owner, name, deadline and finalized flag of every campaign.
Observation ==
    [op |-> last.op, err |-> last.err, active |-> ActiveCampaignIdView,
     meta |-> [i \in CampaignIds |->
                  <<campaigns[i].owner, campaigns[i].name,
                    campaigns[i].deadline, campaigns[i].finalized>>]]

\* the accounts calling in such an execution: the owner and one contributor
PairCallers == {"o", "a"}
PairContributors == {"a"}
\* the token is handed a valid proof with each expiry of the operator right,
\* or an invalid proof under a lasting right: the token has at most one
\* reason to refuse
PairPullInputs == {<<TRUE, u>> : u \in OperatorUntil} \cup {<<FALSE, MaxTime>>}

\* One call.  In a first execution (pos = 0) the call and what it showed are
\* appended to the script; in the rerun the call must be the script's next.
\* `call` holds the caller, the clear arguments, the proof's validity and the
\* operator right, never an encrypted amount or a minted amount: the amount
\* of the first execution is kept aside as `secret` and is not replayed.
Scripted(call, secret, A) ==
    /\ IF pos = 0 THEN Len(script) < ScriptLen
                  ELSE pos <= Len(script) /\ script[pos].call = call
    /\ A
    /\ IF pos = 0
       THEN /\ script' = Append(script, [call |-> call, secret |-> secret,
                                         obs |-> Observation'])
            /\ pos' = 0
       ELSE /\ pos' = pos + 1
            /\ script' = script

\* the first execution is over: everything but the script is as constructed
Rerun ==
    /\ pos = 0
    /\ Len(script) = ScriptLen
    /\ pos' = 1
    /\ script' = script
    /\ now' = 1
    /\ campaignCounter' = 0
    /\ activeCampaignId' = 0
    /\ campaigns' = [i \in CampaignIds |-> EmptyCampaign]
    /\ contributions' = [i \in CampaignIds |-> [p \in Addr |-> 0]]
    /\ balances' = [p \in Principal |-> 0]
    /\ cipher' = <<>>
    /\ acl' = {}
    /\ minted' = <<>>
    /\ events' = <<>>
    /\ last' = NoCall

\* the amounts behind the ciphertexts and the minted amounts are chosen anew
\* in each execution
NextPair ==
    \/ \E x \in CreateArgs :
          Scripted(<<"createCampaign", "o", x>>, 0,
                   CreateCampaign("o", x[1], x[2], x[3]))
    \/ \E s \in PairContributors, y \in PairPullInputs, amount \in ContribAmounts :
          Scripted(<<"contribute", s, y>>, amount,
                   Contribute(s, amount, y[1], y[2]))
    \/ \E s \in PairCallers :
          Scripted(<<"finalizeCampaign", s, <<>> >>, 0, FinalizeCampaign(s))
    \/ \E to \in PairContributors, amount \in MintAmounts :
          Scripted(<<"mint", to, <<>> >>, amount, Mint(to, amount))
    \/ Scripted(<<"tick", NoAddr, <<>> >>, 0, Tick)
    \/ Rerun

SpecPair == Init /\ [][NextPair]_<<vars, script, pos>>

\* ================================================================ claims
\* the campaigns that have been stored
Allocated == {i \in CampaignIds : campaigns[i].owner # NoAddr}

\* the stored campaigns that are not finalized
Unfinalized == {i \in Allocated : ~campaigns[i].finalized}

\* positions of the ContributionReceived events of campaign id
ContributionsTo(id) ==
    {i \in 1 .. Len(events) :
        events[i].kind = "ContributionReceived" /\ events[i].id = id}

\* positions of the ContributionReceived events of campaign id sent by p
ContributionsBy(id, p) == {i \in ContributionsTo(id) : events[i].who = p}

\* sum of the plaintexts of the amounts emitted at the positions S, taken in
\* no particular order
RECURSIVE EffectiveSum(_)
EffectiveSum(S) ==
    IF S = {} THEN 0
    ELSE LET i == CHOOSE j \in S : TRUE
         IN  Plain(cipher, events[i].amount) + EffectiveSum(S \ {i})

\* C1: at most one stored campaign is unfinalized; activeCampaignId() is 0
\* exactly when there is none and is otherwise the id of that campaign.
C1_SingleActiveCampaign ==
    /\ Cardinality(Unfinalized) <= 1
    /\ (ActiveCampaignIdView = 0) <=> (Unfinalized = {})
    /\ Unfinalized # {} => Unfinalized = {ActiveCampaignIdView}

C1_Witness ==
    /\ campaignCounter = 2
    /\ campaigns[1].finalized
    /\ Unfinalized = {2}
    /\ activeCampaignId = 2

\* C2: a successful createCampaign leaves activeCampaignId() at the id it
\* allocated; while a campaign is active every createCampaign, by any caller with
\* any arguments, fails with ActiveCampaignAlreadyExists; and the active id only
\* returns to 0 by a successful finalizeCampaign.
C2_CreateThenActiveUntilFinalize ==
    [][ /\ last'.op = "createCampaign" =>
              IF activeCampaignId # 0
              THEN /\ last'.err = "ActiveCampaignAlreadyExists"
                   /\ ActiveCampaignIdView' = activeCampaignId
              ELSE last'.err = "ok" =>
                      /\ ActiveCampaignIdView' = campaignCounter + 1
                      /\ ActiveCampaignIdView' = last'.id
                      /\ campaigns'[last'.id].owner = last'.caller
                      /\ Len(campaigns'[last'.id].name) > 0
                      /\ campaigns'[last'.id].deadline > now
        /\ (activeCampaignId # 0 /\ activeCampaignId' # activeCampaignId) =>
              /\ activeCampaignId' = 0
              /\ last'.op = "finalizeCampaign"
              /\ last'.err = "ok"
      ]_vars

C2_Witness ==
    /\ last.op = "createCampaign"
    /\ last.err = "ActiveCampaignAlreadyExists"
    /\ activeCampaignId = 2

\* C3: the plaintext of every campaign's running total is the sum modulo 2^width
\* of the amounts effectively transferred by the contributions to it (the
\* amounts the transfers returned), whatever the order they came in.
C3_TotalIsSumOfTransferred ==
    \A id \in Allocated :
        Plain(cipher, campaigns[id].totalRaised)
            = EffectiveSum(ContributionsTo(id)) % Modulus

\* two contributors have each moved a positive amount into the same campaign
C3_Witness ==
    \E id \in Allocated :
        \E i, j \in ContributionsTo(id) :
            /\ events[i].who # events[j].who
            /\ Plain(cipher, events[i].amount) > 0
            /\ Plain(cipher, events[j].amount) > 0
            /\ Plain(cipher, campaigns[id].totalRaised)
                   = Plain(cipher, events[i].amount) + Plain(cipher, events[j].amount)

\* C4: a contributor's record in a campaign is the sum of the amounts that
\* contributor effectively transferred to it (x after a first contribution of x,
\* x + y after a following one of y), and contribute returns the stored record.
C4_RecordAccumulates ==
    /\ \A id \in Allocated, p \in Addr :
          Plain(cipher, GetContribution(id, p))
              = EffectiveSum(ContributionsBy(id, p)) % Modulus
    /\ (last.op = "contribute" /\ last.err = "ok") =>
          /\ IsInitialized(last.ret)
          /\ last.ret = GetContribution(last.id, last.caller)

\* the same contributor has twice moved a positive amount into a campaign
C4_Witness ==
    /\ last.op = "contribute"
    /\ last.err = "ok"
    /\ \E i, j \in ContributionsBy(last.id, last.caller) :
          /\ i < j
          /\ Plain(cipher, events[i].amount) > 0
          /\ Plain(cipher, events[j].amount) > 0
          /\ Plain(cipher, last.ret)
                 = Plain(cipher, events[i].amount) + Plain(cipher, events[j].amount)

\* C5: a successful finalizeCampaign empties the pool into the owner's balance,
\* returns that amount, marks the campaign finalized, resets activeCampaignId()
\* to 0, and leaves createCampaign with valid arguments free to succeed.
C5_FinalizeSweepsPool ==
    [][ \A s \in Addr :
          (last'.op = "finalizeCampaign" /\ last'.err = "ok" /\ FinalizeCampaign(s)) =>
              LET id == activeCampaignId
                  owner == campaigns[id].owner
                  pool == Plain(cipher, balances[This])
              IN  /\ s = owner
                  /\ Plain(cipher', balances'[This]) = 0
                  /\ Plain(cipher', balances'[owner])
                         = (Plain(cipher, balances[owner]) + pool) % Modulus
                  /\ Plain(cipher', last'.ret) = pool
                  /\ campaigns'[id].finalized
                  /\ ActiveCampaignIdView' = 0
                  /\ CreateError("vault", 1, now + 1)' = "ok"
      ]_vars

\* a finalize has just paid out a pool that held funds
C5_Witness ==
    /\ last.op = "finalizeCampaign"
    /\ last.err = "ok"
    /\ Plain(cipher, last.ret) > 0
    /\ Plain(cipher, balances[This]) = 0
    /\ activeCampaignId = 0

\* C6 as stated: whenever the owner finalizes, the payout and the growth of the
\* owner's balance are the sum of the amounts effectively contributed to the
\* campaign, which is its running total.
C6_PayoutIsTotal ==
    [][ (last'.op = "finalizeCampaign" /\ last'.err = "ok") =>
          LET id == activeCampaignId
              owner == campaigns[id].owner
              sum == EffectiveSum(ContributionsTo(id)) % Modulus
          IN  /\ Plain(cipher', last'.ret) = sum
              /\ Plain(cipher', last'.ret) = Plain(cipher, campaigns[id].totalRaised)
              /\ Plain(cipher', balances'[owner])
                     = (Plain(cipher, balances[owner]) + sum) % Modulus
      ]_vars

\* cUSDT has been minted straight to the pooled account
PoolMinted == \E i \in 1 .. Len(minted) : minted[i] = This

\* C6 amended: the same, provided the pooled account has received funds only
\* through contribute.
C6_PayoutIsTotalUnlessPoolFunded ==
    [][ (last'.op = "finalizeCampaign" /\ last'.err = "ok" /\ ~PoolMinted) =>
          LET id == activeCampaignId
              owner == campaigns[id].owner
              sum == EffectiveSum(ContributionsTo(id)) % Modulus
          IN  /\ Plain(cipher', last'.ret) = sum
              /\ Plain(cipher', last'.ret) = Plain(cipher, campaigns[id].totalRaised)
              /\ Plain(cipher', balances'[owner])
                     = (Plain(cipher, balances[owner]) + sum) % Modulus
      ]_vars

\* a campaign that two contributions moved funds into has just been paid out
C6_Witness ==
    /\ last.op = "finalizeCampaign"
    /\ last.err = "ok"
    /\ ~PoolMinted
    /\ Cardinality({i \in ContributionsTo(last.id) :
                       Plain(cipher, events[i].amount) > 0}) = 2
    /\ Plain(cipher, last.ret) = EffectiveSum(ContributionsTo(last.id))

\* C7: while a campaign is active and now >= deadline (now = deadline included),
\* every contribute fails with CampaignClosed, finalized or not.
C7_ContributeAfterDeadlineClosed ==
    (/\ last.op = "contribute"
     /\ activeCampaignId # 0
     /\ now >= campaigns[activeCampaignId].deadline)
        => last.err = "CampaignClosed"

\* a contribute was refused at the very deadline of an unfinalized campaign
C7_Witness ==
    /\ last.op = "contribute"
    /\ last.err = "CampaignClosed"
    /\ activeCampaignId # 0
    /\ ~campaigns[activeCampaignId].finalized
    /\ now = campaigns[activeCampaignId].deadline

\* C8: finalizeCampaign by anyone but the active campaign's owner fails with
\* UnauthorizedOwner and changes neither the campaign, the active id, nor any
\* balance.
C8_NonOwnerFinalizeRejected ==
    [][ \A s \in Addr :
          (/\ last'.op = "finalizeCampaign"
           /\ activeCampaignId # 0
           /\ s # campaigns[activeCampaignId].owner
           /\ FinalizeCampaign(s)) =>
              /\ last'.err = "UnauthorizedOwner"
              /\ UNCHANGED <<campaigns, activeCampaignId, balances, cipher,
                             contributions, campaignCounter>>
      ]_vars

\* a finalize was refused while the campaign held funds
C8_Witness ==
    /\ last.op = "finalizeCampaign"
    /\ last.err = "UnauthorizedOwner"
    /\ activeCampaignId # 0
    /\ ~campaigns[activeCampaignId].finalized
    /\ Plain(cipher, balances[This]) > 0

\* difference b - a modulo 2^width
Delta(a, b) == (b - a + Modulus) % Modulus

\* C9: in every contribute call the decrease of the contributor's balance, the
\* increase of the pool, the increase of the running total and the increase of
\* the contributor's record are one and the same amount, zero when the call fails.
C9_ContributeAllOrNothing ==
    [][ last'.op = "contribute" =>
          IF last'.err = "ok"
          THEN LET id == activeCampaignId
                   s == last'.caller
                   moved == Plain(cipher', events'[Len(events')].amount)
               IN  /\ Delta(Plain(cipher', balances'[s]), Plain(cipher, balances[s]))
                          = moved
                   /\ Delta(Plain(cipher, balances[This]),
                            Plain(cipher', balances'[This])) = moved
                   /\ Delta(Plain(cipher, campaigns[id].totalRaised),
                            Plain(cipher', campaigns'[id].totalRaised)) = moved
                   /\ Delta(Plain(cipher, contributions[id][s]),
                            Plain(cipher', contributions'[id][s])) = moved
                   /\ \A p \in Addr \ {s} : balances'[p] = balances[p]
          ELSE UNCHANGED <<balances, campaigns, contributions, cipher, acl, events>>
      ]_vars

\* a contribute has just moved a positive amount
C9_Witness ==
    /\ last.op = "contribute"
    /\ last.err = "ok"
    /\ Plain(cipher, events[Len(events)].amount) > 0
    /\ Plain(cipher, balances[This]) > 0

\* C10: the owner's finalizeCampaign on an active, unfinalized campaign succeeds
\* before the deadline as well as at or after it.
C10_FinalizeNotGatedByDeadline ==
    [][ \A s \in Addr :
          (/\ last'.op = "finalizeCampaign"
           /\ activeCampaignId # 0
           /\ ~campaigns[activeCampaignId].finalized
           /\ s = campaigns[activeCampaignId].owner
           /\ FinalizeCampaign(s)) =>
              /\ last'.err = "ok"
              /\ campaigns'[activeCampaignId].finalized
      ]_vars

\* a campaign has just been finalized before its deadline
C10_Witness ==
    /\ last.op = "finalizeCampaign"
    /\ last.err = "ok"
    /\ now < campaigns[last.id].deadline

\* C11: with no campaign active, createCampaign fails with InvalidCampaignConfig
\* whenever the name is empty, the target is zero or deadline <= now (deadline =
\* now included) and then changes nothing; otherwise it succeeds and stores a
\* campaign with owner = caller, the given name and deadline, finalized = FALSE.
C11_CreateValidatesConfig ==
    [][ \A s \in Addr, x \in CreateArgs :
          (activeCampaignId = 0 /\ CreateCampaign(s, x[1], x[2], x[3])) =>
              IF Len(x[1]) = 0 \/ x[2] = 0 \/ x[3] <= now
              THEN /\ last'.op = "createCampaign"
                   /\ last'.err = "InvalidCampaignConfig"
                   /\ UNCHANGED <<campaignCounter, activeCampaignId, campaigns>>
              ELSE /\ last'.err = "ok"
                   /\ campaigns'[last'.id].owner = s
                   /\ campaigns'[last'.id].name = x[1]
                   /\ campaigns'[last'.id].deadline = x[3]
                   /\ campaigns'[last'.id].finalized = FALSE
                   /\ Plain(cipher', campaigns'[last'.id].targetAmount) = x[2]
      ]_vars

\* a createCampaign was refused for its arguments at the last instant of the
\* clock, after an earlier campaign was finalized
C11_Witness ==
    /\ last.op = "createCampaign"
    /\ last.err = "InvalidCampaignConfig"
    /\ activeCampaignId = 0
    /\ campaignCounter = 1
    /\ now = MaxTime

\* C12: whenever activeCampaignId() is 0 (no campaign created yet, or the last
\* one finalized), contribute and finalizeCampaign by any caller fail with
\* CampaignNotFound, the error the contract raises when no campaign is active,
\* and change nothing.
C12_NoActiveCampaignRejects ==
    [][ (/\ ActiveCampaignIdView = 0
         /\ last'.op \in {"contribute", "finalizeCampaign"}) =>
              /\ last'.err = "CampaignNotFound"
              /\ UNCHANGED <<campaignCounter, activeCampaignId, campaigns,
                             contributions, balances, cipher, acl, events>>
      ]_vars

\* a contribute was refused after the only campaign was finalized, while the
\* caller held funds
C12_Witness ==
    /\ last.op = "contribute"
    /\ last.err = "CampaignNotFound"
    /\ campaignCounter = 1
    /\ campaigns[1].finalized
    /\ activeCampaignId = 0
    /\ \E p \in Addr \ {campaigns[1].owner} : Plain(cipher, balances[p]) > 0

\* the latest campaign has been finalized and no other has been opened since
LatestFinalized == campaignCounter > 0 /\ campaigns[campaignCounter].finalized

\* C13 as stated: finalizeCampaign called by the owner of a campaign that has
\* already been finalized fails with CampaignClosed.
C13_FinalizeFinalizedClosed ==
    [][ \A s \in Addr :
          (/\ LatestFinalized
           /\ s = campaigns[campaignCounter].owner
           /\ FinalizeCampaign(s)) => last'.err = "CampaignClosed"
      ]_vars

\* C13 amended: finalizeCampaign called by the owner of a campaign that has
\* already been finalized fails with CampaignNotFound and changes nothing,
\* because finalizing cleared the active id; no finalizeCampaign call ever
\* fails with CampaignClosed.
C13_FinalizeFinalizedNotFound ==
    [][ /\ \A s \in Addr :
              (/\ LatestFinalized
               /\ s = campaigns[campaignCounter].owner
               /\ FinalizeCampaign(s)) =>
                  /\ last'.op = "finalizeCampaign"
                  /\ last'.err = "CampaignNotFound"
                  /\ UNCHANGED <<campaignCounter, activeCampaignId, campaigns,
                                 contributions, balances, cipher, acl, events>>
        /\ last'.op = "finalizeCampaign" => last'.err # "CampaignClosed"
      ]_vars

\* a finalizeCampaign was refused right after two campaigns were finalized
C13_Witness ==
    /\ last.op = "finalizeCampaign"
    /\ last.err = "CampaignNotFound"
    /\ campaignCounter = 2
    /\ LatestFinalized
    /\ events[Len(events)].kind = "CampaignFinalized"

\* positions of the events of the given kind emitted for campaign id
EventsOf(kind, id) ==
    {i \in 1 .. Len(events) : events[i].kind = kind /\ events[i].id = id}

\* C14: getCampaign(id) fails with CampaignNotFound exactly when id was never
\* allocated (id = 0 or id above the number of campaigns created); for every
\* allocated id, finalized and cleared from the active slot or not, it returns
\* the owner and target the campaign was created with, a name, a deadline, the
\* running total, and finalized = TRUE exactly once the campaign was finalized.
C14_GetCampaignFound ==
    \A id \in CampaignIds :
        /\ (GetCampaignError(id) = "CampaignNotFound")
               <=> (id = 0 \/ id > campaignCounter)
        /\ GetCampaignError(id) = "ok" =>
              /\ \E i \in EventsOf("CampaignCreated", id) :
                    /\ GetCampaign(id).owner = events[i].who
                    /\ Plain(cipher, GetCampaign(id).targetAmount) = events[i].amount
              /\ Len(GetCampaign(id).name) > 0
              /\ GetCampaign(id).deadline > 0
              /\ IsInitialized(GetCampaign(id).totalRaised)
              /\ Plain(cipher, GetCampaign(id).totalRaised)
                     = EffectiveSum(ContributionsTo(id)) % Modulus
              /\ GetCampaign(id).finalized
                     <=> (EventsOf("CampaignFinalized", id) # {})
              /\ GetCampaign(id).finalized <=> (id # ActiveCampaignIdView)

\* campaign 1 is finalized, cleared from the active slot and still returned
\* with the total it raised; campaign 2 is active; id 3 was never allocated
C14_Witness ==
    /\ campaignCounter = 2
    /\ activeCampaignId = 2
    /\ GetCampaignError(1) = "ok"
    /\ GetCampaign(1).finalized
    /\ Plain(cipher, GetCampaign(1).totalRaised) > 0
    /\ GetCampaignError(2) = "ok"
    /\ ~GetCampaign(2).finalized
    /\ GetCampaignError(3) = "CampaignNotFound"
    /\ GetCampaignError(0) = "CampaignNotFound"

\* C15: getContribution(id, principal) fails with CampaignNotFound whenever id
\* was never allocated, for every principal.
C15_GetContributionNotFound ==
    \A id \in CampaignIds, p \in Addr :
        (id = 0 \/ id > campaignCounter) =>
            GetContributionError(id, p) = "CampaignNotFound"

\* C16: campaign ids are allocated as 1, 2, 3, ...: the first successful
\* createCampaign yields 1, each later one the previous id plus 1 into a slot
\* never written before; a failed createCampaign, and every other operation,
\* consumes no id; and the identity of an allocated id (owner, name, deadline,
\* target) never changes, also after its campaign is finalized.
C16_IdsSequential ==
    [][ /\ Allocated = 1 .. campaignCounter
        /\ IF last'.op = "createCampaign" /\ last'.err = "ok"
           THEN /\ last'.id = campaignCounter + 1
                /\ campaignCounter = 0 => last'.id = 1
                /\ campaignCounter' = last'.id
                /\ campaigns[last'.id] = EmptyCampaign
                /\ Allocated' = Allocated \cup {last'.id}
           ELSE /\ campaignCounter' = campaignCounter
                /\ Allocated' = Allocated
        /\ \A id \in Allocated :
              /\ campaigns'[id].owner = campaigns[id].owner
              /\ campaigns'[id].name = campaigns[id].name
              /\ campaigns'[id].deadline = campaigns[id].deadline
              /\ campaigns'[id].targetAmount = campaigns[id].targetAmount
      ]_vars

\* a second campaign has just been created after the first was finalized
C16_Witness ==
    /\ last.op = "createCampaign"
    /\ last.err = "ok"
    /\ last.id = 2
    /\ campaignCounter = 2
    /\ campaigns[1].finalized
    /\ campaigns[1].owner # NoAddr

\* C17 as stated: for every (campaign, contributor) the plaintext of the stored
\* record never decreases: a successful contribute adds the transferred amount
\* to it without wrapping, only a successful contribute by that contributor to
\* that campaign changes the stored handle, and the plaintext behind a handle
\* never changes.
C17_RecordNeverDecreases ==
    [][ /\ SubSeq(cipher', 1, Len(cipher)) = cipher
        /\ contributions' # contributions =>
              /\ last'.op = "contribute"
              /\ last'.err = "ok"
              /\ contributions' =
                     [contributions EXCEPT ![last'.id][last'.caller] = last'.ret]
              /\ Plain(cipher', last'.ret)
                     = Plain(cipher, contributions[last'.id][last'.caller])
                          + Plain(cipher', events'[Len(events')].amount)
              /\ Plain(cipher', last'.ret)
                     >= Plain(cipher, contributions[last'.id][last'.caller])
      ]_vars

\* C17 amended: for every (campaign, contributor) only a successful
\* contribute by that contributor to that campaign changes the stored record,
\* and the plaintext behind a handle never changes; the contribute leaves the
\* record at its previous value plus the transferred amount modulo the word:
\* greater than or equal to its previous value while that sum fits the word,
\* and smaller than it when the sum does not, the homomorphic addition wrapping.
C17_RecordDecreasesOnlyByWrap ==
    [][ /\ SubSeq(cipher', 1, Len(cipher)) = cipher
        /\ contributions' # contributions =>
              LET previous ==
                      Plain(cipher, contributions[last'.id][last'.caller])
                  transferred == Plain(cipher', events'[Len(events')].amount)
                  updated == Plain(cipher', last'.ret)
              IN  /\ last'.op = "contribute"
                  /\ last'.err = "ok"
                  /\ contributions' =
                         [contributions EXCEPT
                              ![last'.id][last'.caller] = last'.ret]
                  /\ updated = (previous + transferred) % Modulus
                  /\ previous + transferred < Modulus => updated >= previous
                  /\ previous + transferred >= Modulus => updated < previous
      ]_vars

\* a second positive contribution by the same contributor has just wrapped a
\* positive record: the record now holds less than the amount just transferred
C17_Witness ==
    /\ last.op = "contribute"
    /\ last.err = "ok"
    /\ Len(events) >= 2
    /\ events[Len(events) - 1].kind = "ContributionReceived"
    /\ events[Len(events) - 1].who = last.caller
    /\ events[Len(events) - 1].id = last.id
    /\ Plain(cipher, events[Len(events) - 1].amount) > 0
    /\ Plain(cipher, events[Len(events)].amount) > 0
    /\ Plain(cipher, contributions[last.id][last.caller])
           < Plain(cipher, events[Len(events)].amount)

\* the active campaign accepts contributions: not finalized, deadline ahead
Open ==
    /\ activeCampaignId # 0
    /\ ~campaigns[activeCampaignId].finalized
    /\ now < campaigns[activeCampaignId].deadline

\* C18: contribute to an open campaign by a caller whose operator right for the
\* contract is absent or has expired at the current time fails, with
\* NotAuthorizedOperator when the proof is valid (with an invalid proof as well,
\* the error is one of the two), and changes nothing; with an unexpired right
\* and a valid proof it succeeds.
C18_OperatorRightRequired ==
    [][ (last'.op = "contribute" /\ Open) =>
          LET proofOk == last'.input[1]
              until == last'.input[2]
          IN  IF until = 0 \/ until < now
              THEN /\ last'.err \in {"NotAuthorizedOperator", "ProofInvalid"}
                   /\ proofOk => last'.err = "NotAuthorizedOperator"
                   /\ UNCHANGED <<campaignCounter, activeCampaignId, campaigns,
                                  contributions, balances, cipher, acl, events>>
              ELSE IF proofOk
                   THEN /\ last'.err = "ok"
                        /\ events' # events
                   ELSE last'.err = "ProofInvalid"
      ]_vars

\* a contribute with a valid proof was refused on an open campaign because the
\* caller's operator right had expired, while the caller held funds
C18_Witness ==
    /\ last.op = "contribute"
    /\ last.err = "NotAuthorizedOperator"
    /\ last.input[1]
    /\ last.input[2] > 0
    /\ last.input[2] < now
    /\ Open
    /\ \E p \in Addr : Plain(cipher, balances[p]) > 0

\* the errors of the contract and of the token inside contribute
ErrorKinds ==
    {"ActiveCampaignAlreadyExists", "InvalidCampaignConfig", "CampaignNotFound",
     "CampaignClosed", "UnauthorizedOwner", "ProofInvalid", "NotAuthorizedOperator"}

\* C19: whenever createCampaign, contribute or finalizeCampaign fails, with
\* whatever error, the id counter, the active id, every campaign, every
\* contribution record, every balance, every ciphertext and the grant set are
\* what they were before the call.
C19_RejectedChangesNothing ==
    [][ (/\ last'.op \in {"createCampaign", "contribute", "finalizeCampaign"}
         /\ last'.err # "ok") =>
              /\ last'.err \in ErrorKinds
              /\ UNCHANGED <<campaignCounter, activeCampaignId, campaigns,
                             contributions, balances, cipher, acl, events>>
      ]_vars

\* a contribute has just been refused by the token on an open campaign that
\* holds funds, with the caller holding funds too
C19_Witness ==
    /\ last.op = "contribute"
    /\ last.err = "ProofInvalid"
    /\ Open
    /\ Plain(cipher, balances[This]) > 0
    /\ \E p \in Addr : Plain(cipher, balances[p]) > 0

\* C20: the grant set is append-only: every step keeps every grant there is,
\* whatever the operation, and granting again what a step has granted leaves
\* the set as it is.
C20_GrantsAppendOnly ==
    [][ acl' # acl =>
          /\ acl \subseteq acl'
          /\ \A g \in acl' \ acl :
                /\ Allow(acl', g[1], g[2]) = acl'
                /\ Allow(acl, g[1], g[2]) \subseteq acl'
      ]_vars

\* the owner has contributed to the own campaign, so that contribute granted
\* the new total and the new record to the same principal twice, after an
\* earlier contribution by somebody else
C20_Witness ==
    /\ last.op = "contribute"
    /\ last.err = "ok"
    /\ last.caller = campaigns[last.id].owner
    /\ <<last.ret, last.caller>> \in acl
    /\ <<campaigns[last.id].totalRaised, last.caller>> \in acl
    /\ \E i \in ContributionsTo(last.id) : events[i].who # last.caller

\* C21: after every successful contribute by contributor c to a campaign owned
\* by o, the campaign's new running-total handle and c's new record handle, both
\* produced by the call, are granted to the contract, to o and to c, and the
\* transferred handle is granted to o and to c.
C21_ContributeGrantsNewHandles ==
    [][ (last'.op = "contribute" /\ last'.err = "ok") =>
          LET id == last'.id
              c == last'.caller
              o == campaigns'[id].owner
              total == campaigns'[id].totalRaised
              record == contributions'[id][c]
              transferred == events'[Len(events')].amount
          IN  /\ {total, record, transferred} \cap (1 .. Len(cipher)) = {}
              /\ Cardinality({total, record, transferred}) = 3
              /\ record = last'.ret
              /\ {<<total, This>>, <<total, o>>, <<total, c>>} \subseteq acl'
              /\ {<<record, This>>, <<record, o>>, <<record, c>>} \subseteq acl'
              /\ {<<transferred, o>>, <<transferred, c>>} \subseteq acl'
      ]_vars

\* a contributor who is not the owner has just moved a positive amount
C21_Witness ==
    /\ last.op = "contribute"
    /\ last.err = "ok"
    /\ last.caller # campaigns[last.id].owner
    /\ Plain(cipher, events[Len(events)].amount) > 0
    /\ <<campaigns[last.id].totalRaised, last.caller>> \in acl
    /\ <<last.ret, campaigns[last.id].owner>> \in acl

\* C22: a successful contribute by contributor c changes only c's record in the
\* active campaign, that campaign's running total, c's balance and the pool
\* balance: every other record, every other campaign, every other field of the
\* active campaign, every other balance, the counter and the active id stay.
C22_ContributeFrame ==
    [][ (last'.op = "contribute" /\ last'.err = "ok") =>
          LET id == activeCampaignId
              c == last'.caller
          IN  /\ last'.id = id
              /\ \A i \in CampaignIds, p \in Addr :
                    (i # id \/ p # c) => contributions'[i][p] = contributions[i][p]
              /\ contributions'[id][c] # contributions[id][c]
              /\ \A i \in CampaignIds \ {id} : campaigns'[i] = campaigns[i]
              /\ campaigns' = [campaigns EXCEPT
                                  ![id].totalRaised = campaigns'[id].totalRaised]
              /\ campaigns'[id].totalRaised # campaigns[id].totalRaised
              /\ \A p \in Principal \ {c, This} : balances'[p] = balances[p]
              /\ UNCHANGED <<campaignCounter, activeCampaignId, now>>
      ]_vars

\* a contribution has just been made to the second campaign by one account
\* while the first campaign holds the positive record of another
C22_Witness ==
    /\ last.op = "contribute"
    /\ last.err = "ok"
    /\ last.id = 2
    /\ \E p \in Addr \ {last.caller} : Plain(cipher, contributions[1][p]) > 0
    /\ Plain(cipher, campaigns[1].totalRaised) > 0

\* C24: finalized is terminal.  In every step, a campaign whose finalized flag
\* is set keeps the flag, its owner, name, deadline, target handle and total
\* handle, the plaintexts behind both handles, and every contribution record
\* with the plaintext behind it; and a successful contribute is never credited
\* to a campaign that was finalized.
C24_FinalizedIsTerminal ==
    [][ /\ \A i \in CampaignIds :
              campaigns[i].finalized =>
                 /\ campaigns'[i] = campaigns[i]
                 /\ contributions'[i] = contributions[i]
                 /\ Plain(cipher', campaigns'[i].targetAmount)
                       = Plain(cipher, campaigns[i].targetAmount)
                 /\ Plain(cipher', campaigns'[i].totalRaised)
                       = Plain(cipher, campaigns[i].totalRaised)
                 /\ \A p \in Addr :
                       Plain(cipher', contributions'[i][p])
                          = Plain(cipher, contributions[i][p])
        /\ (last'.op = "contribute" /\ last'.err = "ok") =>
              /\ ~campaigns[last'.id].finalized
              /\ ~campaigns'[last'.id].finalized
      ]_vars

\* a contributor who has a positive record in the finalized campaign 1 has
\* just contributed again, and the call went to campaign 2
C24_Witness ==
    /\ campaigns[1].finalized
    /\ last.op = "contribute"
    /\ last.err = "ok"
    /\ last.id = 2
    /\ Plain(cipher, contributions[1][last.caller]) > 0
    /\ Plain(cipher, campaigns[1].totalRaised)
          = Plain(cipher, contributions[1][last.caller])

\* C25: a successful createCampaign stores a target handle whose plaintext is
\* the target it was given and a total handle whose plaintext is 0, both newly
\* produced, and grants both to the contract and to the creator; and no step
\* changes the owner, the name, the deadline or the target (handle and
\* plaintext) of a stored campaign.
C25_CreateStoresTargetAndZero ==
    [][ /\ (last'.op = "createCampaign" /\ last'.err = "ok") =>
              LET id == last'.id
                  target == campaigns'[id].targetAmount
                  total == campaigns'[id].totalRaised
                  given == events'[Len(events')].amount
              IN  /\ events'[Len(events')].kind = "CampaignCreated"
                  /\ events'[Len(events')].id = id
                  /\ given > 0
                  /\ target > Len(cipher)
                  /\ total > Len(cipher)
                  /\ target # total
                  /\ Plain(cipher', target) = given
                  /\ Plain(cipher', total) = 0
                  /\ {<<target, This>>, <<target, last'.caller>>,
                      <<total, This>>, <<total, last'.caller>>} \subseteq acl'
                  /\ campaigns'[id].owner = last'.caller
        /\ \A i \in Allocated :
              /\ campaigns'[i].owner = campaigns[i].owner
              /\ campaigns'[i].name = campaigns[i].name
              /\ campaigns'[i].deadline = campaigns[i].deadline
              /\ campaigns'[i].targetAmount = campaigns[i].targetAmount
              /\ Plain(cipher', campaigns'[i].targetAmount)
                    = Plain(cipher, campaigns[i].targetAmount)
      ]_vars

\* the second campaign has just been created with another target than the
\* first, which took a contribution and was finalized
C25_Witness ==
    /\ last.op = "createCampaign"
    /\ last.err = "ok"
    /\ last.id = 2
    /\ Plain(cipher, campaigns[1].totalRaised) > 0
    /\ Plain(cipher, campaigns[2].targetAmount) > 1
    /\ Plain(cipher, campaigns[2].targetAmount)
          # Plain(cipher, campaigns[1].targetAmount)

\* the principals holding a grant on handle h
Grantees(h) == {x[2] : x \in {y \in acl : y[1] = h}}

\* the sender of the latest contribution to campaign id, if there is one
LatestContributor(id) ==
    IF ContributionsTo(id) = {} THEN {}
    ELSE {events[CHOOSE i \in ContributionsTo(id) :
                    \A j \in ContributionsTo(id) : j <= i].who}

\* C26: a grant covers one handle.  Every step that changes a campaign's total
\* or a contribution record stores a handle that did not exist before, and
\* every handle that existed keeps its plaintext; and after every such step the
\* grants on a campaign's current total handle are those of the contract, the
\* owner and the sender of the latest contribution only, so that an earlier
\* contributor who is neither holds none.
C26_GrantCoversOneHandle ==
    [][ <<cipher, acl, campaigns, contributions>>'
            # <<cipher, acl, campaigns, contributions>> =>
          /\ Len(cipher') >= Len(cipher)
          /\ SubSeq(cipher', 1, Len(cipher)) = cipher
          /\ \A i \in CampaignIds :
                /\ campaigns'[i].totalRaised # campaigns[i].totalRaised =>
                      campaigns'[i].totalRaised > Len(cipher)
                /\ \A p \in Addr :
                      contributions'[i][p] # contributions[i][p] =>
                         contributions'[i][p] > Len(cipher)
          /\ \A i \in Allocated' :
                Grantees(campaigns[i].totalRaised)'
                   = {This, campaigns'[i].owner} \cup LatestContributor(i)'
      ]_vars

\* B has just contributed to a campaign that A, another account and like B
\* not the owner, had funded before: the total covers A's funds and A holds no
\* grant on it, while A holds one on an older handle with A's plaintext
C26_Witness ==
    /\ last.op = "contribute"
    /\ last.err = "ok"
    /\ last.caller # campaigns[last.id].owner
    /\ \E A \in Addr \ {last.caller, campaigns[last.id].owner} :
          /\ Plain(cipher, contributions[last.id][A]) > 0
          /\ Plain(cipher, campaigns[last.id].totalRaised)
                > Plain(cipher, contributions[last.id][A])
          /\ A \notin Grantees(campaigns[last.id].totalRaised)
          /\ \E h \in 1 .. Len(cipher) :
                /\ {A, This, campaigns[last.id].owner} \subseteq Grantees(h)
                /\ h # contributions[last.id][A]
                /\ h < campaigns[last.id].totalRaised
                /\ cipher[h] = Plain(cipher, contributions[last.id][A])

\* C27: activeCampaignId() is 0 or the id allocated last; the ids allocated are
\* 1 up to the counter; the active campaign is not finalized and every other
\* stored campaign is; so the finalized flag is never what makes contribute or
\* finalizeCampaign reject: contribute answers CampaignClosed only at or after
\* the deadline and finalizeCampaign never answers CampaignClosed.
C27_ActiveIsLatestAndOpen ==
    /\ ActiveCampaignIdView \in {0, campaignCounter}
    /\ Allocated = 1 .. campaignCounter
    /\ activeCampaignId # 0 => ~campaigns[activeCampaignId].finalized
    /\ \A i \in Allocated : i # activeCampaignId => campaigns[i].finalized
    /\ \A i \in Allocated : i < campaignCounter => campaigns[i].finalized
    /\ ContributeError(activeCampaignId) = "CampaignClosed" =>
          now >= campaigns[activeCampaignId].deadline
    /\ \A s \in Addr : FinalizeError(s) # "CampaignClosed"
    /\ last.err = "CampaignClosed" =>
          /\ last.op = "contribute"
          /\ now >= campaigns[activeCampaignId].deadline

\* the second campaign is active past its deadline, the first is finalized,
\* and a contribute has just been refused as closed
C27_Witness ==
    /\ activeCampaignId = 2
    /\ campaignCounter = 2
    /\ campaigns[1].finalized
    /\ last.op = "contribute"
    /\ last.err = "CampaignClosed"

\* sum of the plaintexts of the records that the accounts S hold in campaign id
RECURSIVE RecordSum(_, _)
RecordSum(id, S) ==
    IF S = {} THEN 0
    ELSE LET p == CHOOSE q \in S : TRUE
         IN  Plain(cipher, contributions[id][p]) + RecordSum(id, S \ {p})

\* C28: for every stored campaign the plaintext of the running total is the sum
\* modulo 2^width of the plaintexts of the campaign's contribution records, a
\* record never written counting as 0.
C28_TotalIsSumOfRecords ==
    \A i \in Allocated :
        Plain(cipher, campaigns[i].totalRaised) = RecordSum(i, Addr) % Modulus

\* two accounts hold different positive records in one campaign and the total
\* is their sum
C28_Witness ==
    \E i \in Allocated :
        /\ Plain(cipher, contributions[i]["a"]) = 4
        /\ Plain(cipher, contributions[i]["b"]) = 3
        /\ Plain(cipher, campaigns[i].totalRaised) = 7

\* positions of the CampaignFinalized events
Finalizations == {i \in 1 .. Len(events) : events[i].kind = "CampaignFinalized"}

\* C29: as long as nothing but contribute has paid into the contract's cUSDT
\* balance, that balance is the running total of the active campaign while one
\* is active and 0 while none is, and every payout made so far was the total
\* of the campaign it finalized: nothing of an earlier campaign is in it.
C29_PoolIsActiveTotal ==
    ~PoolMinted =>
       /\ Plain(cipher, balances[This]) =
             IF ActiveCampaignIdView # 0
             THEN Plain(cipher, campaigns[activeCampaignId].totalRaised)
             ELSE 0
       /\ \A i \in Finalizations :
             Plain(cipher, events[i].amount)
                = Plain(cipher, campaigns[events[i].id].totalRaised)

\* the first campaign raised funds and paid them out; the second is active
\* and holds funds of its own, which are all that the contract holds
C29_Witness ==
    /\ ~PoolMinted
    /\ activeCampaignId = 2
    /\ Plain(cipher, campaigns[1].totalRaised) > 0
    /\ Plain(cipher, campaigns[2].totalRaised) > 0
    /\ Plain(cipher, campaigns[2].totalRaised)
          # Plain(cipher, campaigns[1].totalRaised)
    /\ Plain(cipher, balances[This]) = Plain(cipher, campaigns[2].totalRaised)

\* the active campaign is past its deadline (and, being active, not finalized)
Expired ==
    /\ activeCampaignId # 0
    /\ now >= campaigns[activeCampaignId].deadline

\* C30: a campaign past its deadline keeps the slot until its owner finalizes
\* it.  In every step taken while the active campaign is expired, a
\* createCampaign fails with ActiveCampaignAlreadyExists; the step is either a
\* successful finalizeCampaign by the campaign's owner, which clears the slot,
\* or it leaves the same campaign active and expired, with createCampaign
\* still refused for every argument.
C30_ExpiredKeepsSlot ==
    [][ Expired =>
          /\ last'.op = "createCampaign" =>
                last'.err = "ActiveCampaignAlreadyExists"
          /\ IF last'.op = "finalizeCampaign" /\ last'.err = "ok"
             THEN /\ last'.caller = campaigns[activeCampaignId].owner
                  /\ last'.id = activeCampaignId
                  /\ ActiveCampaignIdView' = 0
             ELSE /\ ActiveCampaignIdView' = activeCampaignId
                  /\ Expired'
                  /\ ~campaigns'[activeCampaignId].finalized
                  /\ \A x \in CreateArgs :
                        CreateError(x[1], x[2], x[3])' = "ActiveCampaignAlreadyExists"
      ]_vars

\* the first campaign holds funds, its deadline is reached, it is still the
\* active one, and a createCampaign has just been refused
C30_Witness ==
    /\ Expired
    /\ activeCampaignId = 1
    /\ Plain(cipher, campaigns[1].totalRaised) > 0
    /\ last.op = "createCampaign"
    /\ last.err = "ActiveCampaignAlreadyExists"

\* C23: the ledger never branches on a plaintext amount.  An execution is run
\* a second time from the start with the same calls by the same callers at
\* the same clock values, with the same operator rights and proof validity,
\* and with any other encrypted amounts and minted amounts; after each call
\* of the second run the clear observation (success or error kind,
\* activeCampaignId(), each campaign's owner, name, deadline and finalized
\* flag) is the one the first run showed after that call.
C23_ClearObservationsAgree ==
    pos >= 2 => Observation = script[pos - 1].obs

\* Both executions are mint, createCampaign, contribute, finalizeCampaign, all
\* successful.  The first minted 4 and contributed 4; the rerun has minted and
\* contributed other amounts, its transfer was clamped, so that its payout is
\* 0 and the contributor still holds funds.
C23_Witness ==
    /\ pos = ScriptLen + 1
    /\ script[1].call[1] = "mint"
    /\ script[1].secret = 4
    /\ script[3].obs.op = "contribute"
    /\ script[3].obs.err = "ok"
    /\ script[3].secret = 4
    /\ script[4].obs.op = "finalizeCampaign"
    /\ script[4].obs.err = "ok"
    /\ last.op = "finalizeCampaign"
    /\ last.err = "ok"
    /\ Plain(cipher, last.ret) = 0
    /\ Plain(cipher, balances["a"]) = 3

\* C31: contribute makes its lifecycle checks before the ciphertext is ingested
\* or funds move.  Whatever the proof and the operator right of the call, a
\* contribute made while no campaign is active ends with CampaignNotFound and
\* one made at or after the deadline of the active campaign ends with
\* CampaignClosed, never with ProofInvalid or NotAuthorizedOperator, and no
\* ciphertext, balance or grant is produced; and a createCampaign made while a
\* campaign is active ends with ActiveCampaignAlreadyExists, never with
\* InvalidCampaignConfig.
C31_LifecycleChecksFirst ==
    [][ /\ (last'.op = "contribute"
              /\ (activeCampaignId = 0
                    \/ now >= campaigns[activeCampaignId].deadline)) =>
              /\ last'.err = IF activeCampaignId = 0 THEN "CampaignNotFound"
                                                     ELSE "CampaignClosed"
              /\ last'.input \in PullInputs
              /\ UNCHANGED <<cipher, balances, acl, campaigns, contributions,
                             events, activeCampaignId>>
        /\ (last'.op = "createCampaign" /\ activeCampaignId # 0) =>
              last'.err = "ActiveCampaignAlreadyExists"
      ]_vars

\* a contribute that came with an invalid proof and without any operator
\* right was refused as closed: the active campaign had reached its deadline
C31_Witness ==
    /\ last.op = "contribute"
    /\ last.err = "CampaignClosed"
    /\ last.input = <<FALSE, 0>>
    /\ activeCampaignId # 0
    /\ now >= campaigns[activeCampaignId].deadline

\* C32: calls run one after another, and a contribute is credited to the
\* campaign that is active as it executes, whatever was active when it was
\* submitted.  A contribute executed while no campaign is active (a finalize
\* came first and no create followed) ends with CampaignNotFound and moves no
\* funds.  A successful contribute is credited to the campaign active in the
\* state it executes in, which is not finalized: that campaign's total, the
\* caller's record in it and the contract's balance grow by the transferred
\* amount, and no other campaign's total or records change.
C32_CreditedToActiveAtExecution ==
    [][ last'.op = "contribute" =>
          /\ activeCampaignId = 0 =>
                /\ last'.err = "CampaignNotFound"
                /\ UNCHANGED <<cipher, balances, acl, campaigns, contributions,
                               events, activeCampaignId>>
          /\ last'.err = "ok" =>
                LET id == last'.id
                    c == last'.caller
                    moved == Plain(cipher', events'[Len(events')].amount)
                IN  /\ id = activeCampaignId
                    /\ id # 0
                    /\ ~campaigns[id].finalized
                    /\ Plain(cipher', campaigns'[id].totalRaised)
                          = (Plain(cipher, campaigns[id].totalRaised) + moved) % Modulus
                    /\ Plain(cipher', contributions'[id][c])
                          = (Plain(cipher, contributions[id][c]) + moved) % Modulus
                    /\ Plain(cipher', balances'[This])
                          = (Plain(cipher, balances[This]) + moved) % Modulus
                    /\ \A i \in CampaignIds \ {id} :
                          /\ campaigns'[i] = campaigns[i]
                          /\ contributions'[i] = contributions[i]
      ]_vars

\* Campaign 1 was finalized without this contributor's funds and campaign 2
\* was opened by another owner; the contribute executed after both and its
\* funds are in campaign 2 and in the contract's balance, none in campaign 1.
C32_Witness ==
    /\ last.op = "contribute"
    /\ last.err = "ok"
    /\ last.id = 2
    /\ campaigns[1].finalized
    /\ campaigns[2].owner # campaigns[1].owner
    /\ Plain(cipher, contributions[2][last.caller]) > 0
    /\ Plain(cipher, campaigns[2].totalRaised) > 0
    /\ Plain(cipher, balances[This]) = Plain(cipher, campaigns[2].totalRaised)
    /\ Plain(cipher, campaigns[1].totalRaised) = 0
    /\ contributions[1][last.caller] = 0

====
